---- MODULE Spec2Model ----
(***************************************************************************)
(* A model of mysqlbox (github.com/virgild/mysqlbox): Start, Stop, the     *)
(* readiness poller waitForDB, the log multiplexer readContainerLogs with   *)
(* its nested line scanner, and the table cleaners CleanAllTables and      *)
(* CleanTables.                                                            *)
(*                                                                         *)
(* The Docker daemon, the container and the MySQL server are the           *)
(* environment: every call into them is a step whose outcome is drawn from *)
(* the set of answers the daemon or the driver can give in the current     *)
(* state of the container.                                                 *)
(***************************************************************************)
EXTENDS Integers, Sequences, FiniteSets, TLC

VARIABLES
    cfg,            \* the Config passed to Start (after LoadDefaults)
    faults,         \* TRUE when the daemon/driver may answer with transport errors
    pc,             \* position of the calling goroutine
    b,              \* the *MySQLBox built by Start (Nil until then)
    ret,            \* what the last Start returned: [b, err]
    err,            \* Start's local variable err
    createErr,      \* Start's local variable createErr
    schemaFile,     \* the temporary schema file: "none", "open", "removed"
    removes,        \* number of os.Remove calls on the schema file
    dbConn,         \* the sql.DB opened by connectDB: "none", "open", "closed"
    image,          \* TRUE when the daemon has the image
    container,      \* "absent", "created", "running", "exited", "removed"
    dbReady,        \* TRUE when mysqld accepts connections
    rtCalls,        \* the daemon calls made by the calling goroutine, in order
    elapsed,        \* ticks (of 500 ms) since waitForDB built its context
    poller,         \* "IDLE", "POLLING", "READY", "TIMED_OUT", "EXITED_EARLY"
    probesOK,       \* number of PingContext calls that returned nil
    latePing,       \* history: the last PingContext was issued after the deadline
    containerClosed,\* the buffered channel (capacity 1) of the exit signal
    exitSent,       \* history: [n: sends on containerClosed, at: elapsed at the first]
    exitRecv,       \* history: number of receives from containerClosed
    logFrames,      \* the frames the container writes to its log stream
    rd,             \* number of frames StdCopy has read
    muxPc,          \* position of the readContainerLogs goroutine
    muxErr,         \* the error StdCopy or ContainerLogs ended with ("nil" if none)
    outSink,        \* bytes written to cout when the caller supplied Stdout
    errSink,        \* bytes written to cerr when the caller supplied Stderr
    pipe,           \* io.Pipe: [data: bytes of the blocked Write, state: "open"|"closed"|"error"]
    scanPc,         \* position of the scanner goroutine: "none", "run", "done"
    scanBuf,        \* bytes bufio.Scanner holds and has not yet returned as a line
    clogClose,      \* the earlier Start: its local channel clogClose (capacity 1)
    clog,           \* the earlier Start: the log reader: "none", "open", "closed"
    closer,         \* the earlier Start: the goroutine ranging over clogClose:
                    \* "none", "range", "done"
    senders,        \* the goroutines stopContainer spawned to send on b.clogClose:
                    \* [spawned, parked, done], each a count
    loggedErrors,   \* *c.LoggedErrors
    seenErrors,     \* what the caller read from the collector when Start returned
    stops,          \* number of Stop calls that returned
    stopRet,        \* what the last Stop returned
    stopAns,        \* what the daemon answered to the last call of Stop
    containerEnv,   \* the Env of the container.Config the container was created with
    tables,         \* the database: table name -> number of rows (0..MaxRows), or Absent
    last            \* the last public operation, with the database as it found it

lifeVars == <<cfg, faults, pc, b, ret, err, createErr, schemaFile, removes, dbConn,
              image, container, dbReady, rtCalls, stops, stopRet, stopAns, containerEnv>>
pollVars == <<elapsed, poller, probesOK, latePing, containerClosed, exitSent, exitRecv>>
logVars  == <<logFrames, rd, muxPc, muxErr, outSink, errSink, pipe, scanPc, scanBuf,
              loggedErrors, seenErrors>>
apiVars  == <<tables, last>>
closeVars == <<clogClose, clog, closer, senders>>
vars     == <<lifeVars, pollVars, logVars, apiVars, closeVars>>

(***************************************************************************)
(* Bounds of the model.                                                    *)
(***************************************************************************)
\* ticks of 500 ms (the poller's sleep) in the readiness deadline; the
\* program's startTimeout is 60 of them
StartTimeoutTicks == 3
\* longest log stream, in frames
MaxFrames == 2
\* Stop calls per instance
MaxStops == 2
\* rows a table holds at most
MaxRows == 1
\* names passed to one CleanTables call
MaxArgs == 2

(***************************************************************************)
(* Values.                                                                 *)
(***************************************************************************)
\* an error value: its message and the message of the error it wraps
Err(m) == [msg |-> m, cause |-> "nil"]
Wrap(m, e) == [msg |-> m, cause |-> e.msg]
NoErr == Err("nil")
ErrNil == Err("mysqlbox is nil")
ErrTimeout == Err("could not connect to mysql")
ErrClosed == Err("container closed")
ErrNoPorts == Err("no port bindings")
ErrClosedBody == Err("http: read on closed response body")
\* any failure of the daemon, the driver or the filesystem other than the ones
\* the program tells apart
ErrTransport == Err("transport error")
\* the daemon's "no such image" / "no such container" (errdefs.IsNotFound)
ErrNotFound == Err("not found")

\* the nil *MySQLBox
Nil == [nil |-> TRUE]
\* a table the database does not have
Absent == -1

\* the host port the daemon binds 3306/tcp to
HostPort == 32768

SeqsUpTo(S, n) == UNION { [1..k -> S] : k \in 0..n }

(***************************************************************************)
(* Config and what Start derives from it.                                  *)
(***************************************************************************)
TableNames == {"users", "categories"}

\* EnvVars with the flag for an empty password always set
EnvVars_AlwaysAllowsEmpty(c) ==
    <<[name |-> "MYSQL_DATABASE", value |-> c.Database],
      [name |-> "MYSQL_ALLOW_EMPTY_PASSWORD", value |-> "1"]>> \o
    ( IF c.RootPassword = ""
        THEN <<>>
        ELSE <<[name |-> "MYSQL_ROOT_PASSWORD", value |-> c.RootPassword]>> )

\* Start: the container's environment
EnvVars(c) ==
    <<[name |-> "MYSQL_DATABASE", value |-> c.Database]>> \o
    ( IF c.RootPassword = ""
        THEN <<[name |-> "MYSQL_ALLOW_EMPTY_PASSWORD", value |-> "1"]>>
        ELSE <<[name |-> "MYSQL_ROOT_PASSWORD", value |-> c.RootPassword]>> )

\* connectDB: the fields FormatDSN writes
FormatDSN(port, dbName, rootPass) ==
    [net |-> "tcp", host |-> "127.0.0.1", port |-> port, db |-> dbName,
     user |-> "root", passwd |-> rootPass, parseTime |-> TRUE]

\* the struct Start builds before it waits for the database
NewBox(c, port) ==
    [nil |-> FALSE,
     dsn |-> FormatDSN(port, c.Database, c.RootPassword),
     port |-> port,
     containerID |-> "cid",
     databaseName |-> c.Database,
     hasSchemaFile |-> c.InitialSQL,
     doNotCleanTables |-> c.DoNotCleanTables]

(***************************************************************************)
(* The answers of the environment.                                         *)
(***************************************************************************)
Faulty(S) == IF faults THEN S ELSE {}

\* ioutil.TempFile, io.Copy
SchemaOutcomes == {"ok"} \cup Faulty({"tempfile", "copy"})
\* client.NewClientWithOpts
ClientOutcomes == {NoErr} \cup Faulty({ErrTransport})
\* cli.ContainerCreate: image-absent is errdefs not-found
CreateOutcomes == (IF image THEN {NoErr} ELSE {ErrNotFound}) \cup Faulty({ErrTransport})
\* cli.ImagePull and the progress stream
PullOutcomes == {NoErr} \cup Faulty({ErrTransport})
\* cli.ContainerStart
StartOutcomes == {NoErr} \cup Faulty({ErrTransport})
\* cli.ContainerInspect: the error and the host bindings of 3306/tcp in the
\* answer; a container that is not running has no binding
InspectAnswers ==
    ( CASE container = "running" -> {[err |-> NoErr, ports |-> <<HostPort>>]}
        [] container = "exited"  -> {[err |-> NoErr, ports |-> <<>>]}
        [] OTHER                 -> {[err |-> ErrNotFound, ports |-> <<>>]} )
    \cup Faulty({[err |-> ErrTransport, ports |-> <<>>]})

\* containerMySQLPort reading ports[0] without the test of len(ports)
containerMySQLPort_NoLenTest(cr) == cr.err

\* containerMySQLPort: the error it returns for the answer cr of ContainerInspect
containerMySQLPort(cr) ==
    IF cr.err # NoErr THEN cr.err
    ELSE IF Len(cr.ports) = 0 THEN ErrNoPorts
    ELSE NoErr

\* what containerMySQLPort can return in the current state
InspectOutcomes == { containerMySQLPort(cr) : cr \in InspectAnswers }
\* sql.Open
OpenOutcomes == {NoErr} \cup Faulty({ErrTransport})
\* cli.ContainerStop
StopOutcomes ==
    ( IF container \in {"created", "running", "exited"}
        THEN {NoErr} ELSE {ErrNotFound} ) \cup Faulty({ErrTransport})
\* cli.ContainerLogs
LogsOutcomes ==
    ( IF container \in {"running", "exited"}
        THEN {NoErr} ELSE {ErrNotFound} ) \cup Faulty({ErrTransport})


(***************************************************************************)
(* Start.  One action per call into the environment, each with the code    *)
(* that handles the answer.                                                *)
(***************************************************************************)
\* StartReturns with "return b, err" where Start has "return nil, err"
StartReturns_KeepsBox(box, e) ==
    /\ pc' = IF e = NoErr THEN "started" ELSE "failed"
    /\ b' = IF e = NoErr THEN box ELSE b
    /\ ret' = [b |-> b', err |-> e]
    /\ seenErrors' = loggedErrors

\* what a return of Start leaves with the caller, who then reads the collector
StartReturns(box, e) ==
    /\ pc' = IF e = NoErr THEN "started" ELSE "failed"
    /\ b' = box
    /\ ret' = [b |-> box, err |-> e]
    /\ seenErrors' = loggedErrors

\* Start: the initial schema is written to a temporary file
Start_Schema ==
    /\ pc = "idle"
    /\ IF cfg.InitialSQL
         THEN \E r \in SchemaOutcomes :
                CASE r = "ok" ->
                       /\ schemaFile' = "open"
                       /\ pc' = "client"
                       /\ UNCHANGED <<b, ret, seenErrors>>
                  [] r = "tempfile" ->
                       /\ schemaFile' = schemaFile
                       /\ StartReturns(Nil, ErrTransport)
                  [] r = "copy" ->
                       /\ schemaFile' = "open"
                       /\ StartReturns(Nil, ErrTransport)
         ELSE /\ pc' = "client"
              /\ UNCHANGED <<schemaFile, b, ret, seenErrors>>
    /\ UNCHANGED <<cfg, faults, err, createErr, removes, dbConn, image, container,
                   dbReady, rtCalls, stops, stopRet, stopAns, containerEnv>>
    /\ UNCHANGED <<pollVars, apiVars>>
    /\ UNCHANGED <<logFrames, rd, muxPc, muxErr, outSink, errSink, pipe, scanPc,
                   scanBuf, loggedErrors>>
    /\ UNCHANGED closeVars

\* Start: the docker client
Start_Client ==
    /\ pc = "client"
    /\ \E r \in ClientOutcomes :
         /\ err' = r
         /\ IF r # NoErr
              THEN StartReturns(Nil, r)
              ELSE /\ pc' = "create"
                   /\ UNCHANGED <<b, ret, seenErrors>>
    /\ UNCHANGED <<cfg, faults, createErr, schemaFile, removes, dbConn, image,
                   container, dbReady, rtCalls, stops, stopRet, stopAns, containerEnv>>
    /\ UNCHANGED <<pollVars, apiVars>>
    /\ UNCHANGED <<logFrames, rd, muxPc, muxErr, outSink, errSink, pipe, scanPc,
                   scanBuf, loggedErrors>>
    /\ UNCHANGED closeVars

\* Start: the error returned when createErr is not nil; it wraps the variable
\* err, which holds the answer of NewClientWithOpts
CreateFailure(e, ce) == Wrap("error creating container", e)

\* AfterCreate pulling the image after any failure of the first ContainerCreate
AfterCreate_PullsOnAnyFailure(r, n) ==
    /\ createErr' = r
    /\ container' = IF r = NoErr THEN "created" ELSE container
    /\ containerEnv' = IF r = NoErr THEN EnvVars(cfg) ELSE containerEnv
    /\ IF n = 1 /\ r # NoErr
         THEN /\ pc' = "pull"
              /\ UNCHANGED <<b, ret, seenErrors>>
         ELSE IF r # NoErr
                THEN StartReturns(Nil, CreateFailure(err, r))
                ELSE /\ pc' = "cstart"
                     /\ UNCHANGED <<b, ret, seenErrors>>

\* Start: what follows a ContainerCreate that answered r, on attempt n
AfterCreate(r, n) ==
    /\ createErr' = r
    /\ container' = IF r = NoErr THEN "created" ELSE container
    /\ containerEnv' = IF r = NoErr THEN EnvVars(cfg) ELSE containerEnv
    /\ IF n = 1 /\ r = ErrNotFound
         THEN /\ pc' = "pull"
              /\ UNCHANGED <<b, ret, seenErrors>>
         ELSE IF r # NoErr
                THEN StartReturns(Nil, CreateFailure(err, r))
                ELSE /\ pc' = "cstart"
                     /\ UNCHANGED <<b, ret, seenErrors>>

\* Start: the first ContainerCreate
Start_Create ==
    /\ pc = "create"
    /\ \E r \in CreateOutcomes : AfterCreate(r, 1)
    /\ rtCalls' = Append(rtCalls, "ContainerCreate")
    /\ UNCHANGED <<cfg, faults, err, schemaFile, removes, dbConn, image, dbReady,
                   stops, stopRet, stopAns>>
    /\ UNCHANGED <<pollVars, apiVars>>
    /\ UNCHANGED <<logFrames, rd, muxPc, muxErr, outSink, errSink, pipe, scanPc,
                   scanBuf, loggedErrors>>
    /\ UNCHANGED closeVars

\* Start: pullImage, when the first ContainerCreate answered not-found
Start_Pull ==
    /\ pc = "pull"
    /\ \E r \in PullOutcomes :
         IF r # NoErr
           THEN /\ StartReturns(Nil, Wrap("failed to pull image", r))
                /\ image' = image
           ELSE /\ pc' = "create2"
                /\ image' \in {TRUE} \cup Faulty({FALSE})
                /\ UNCHANGED <<b, ret, seenErrors>>
    /\ rtCalls' = Append(rtCalls, "ImagePull")
    /\ UNCHANGED <<cfg, faults, err, createErr, schemaFile, removes, dbConn,
                   container, dbReady, stops, stopRet, stopAns, containerEnv>>
    /\ UNCHANGED <<pollVars, apiVars>>
    /\ UNCHANGED <<logFrames, rd, muxPc, muxErr, outSink, errSink, pipe, scanPc,
                   scanBuf, loggedErrors>>
    /\ UNCHANGED closeVars

\* Start: the ContainerCreate after the pull
Start_Create2 ==
    /\ pc = "create2"
    /\ \E r \in CreateOutcomes : AfterCreate(r, 2)
    /\ rtCalls' = Append(rtCalls, "ContainerCreate")
    /\ UNCHANGED <<cfg, faults, err, schemaFile, removes, dbConn, image, dbReady,
                   stops, stopRet, stopAns>>
    /\ UNCHANGED <<pollVars, apiVars>>
    /\ UNCHANGED <<logFrames, rd, muxPc, muxErr, outSink, errSink, pipe, scanPc,
                   scanBuf, loggedErrors>>
    /\ UNCHANGED closeVars

\* Start_ContainerStart with readContainerLogs spawned before the answer of
\* ContainerStart is tested
Start_ContainerStart_SpawnsLogsFirst ==
    /\ pc = "cstart"
    /\ \E r \in StartOutcomes :
         /\ err' = r
         /\ IF r # NoErr
              THEN /\ StartReturns(Nil, r)
                   /\ muxPc' = "logs"
                   /\ UNCHANGED container
              ELSE /\ container' = "running"
                   /\ muxPc' = "logs"
                   /\ pc' = "port"
                   /\ UNCHANGED <<b, ret, seenErrors>>
    /\ rtCalls' = Append(rtCalls, "ContainerStart")
    /\ UNCHANGED <<cfg, faults, createErr, schemaFile, removes, dbConn, image,
                   dbReady, stops, stopRet, stopAns, containerEnv>>
    /\ UNCHANGED <<pollVars, apiVars>>
    /\ UNCHANGED <<logFrames, rd, muxErr, outSink, errSink, pipe, scanPc, scanBuf,
                   loggedErrors>>
    /\ UNCHANGED closeVars

\* Start: ContainerStart, then the goroutine of readContainerLogs is spawned
Start_ContainerStart ==
    /\ pc = "cstart"
    /\ \E r \in StartOutcomes :
         /\ err' = r
         /\ IF r # NoErr
              THEN /\ StartReturns(Nil, r)
                   /\ UNCHANGED <<container, muxPc>>
              ELSE /\ container' = "running"
                   /\ muxPc' = "logs"
                   /\ pc' = "port"
                   /\ UNCHANGED <<b, ret, seenErrors>>
    /\ rtCalls' = Append(rtCalls, "ContainerStart")
    /\ UNCHANGED <<cfg, faults, createErr, schemaFile, removes, dbConn, image,
                   dbReady, stops, stopRet, stopAns, containerEnv>>
    /\ UNCHANGED <<pollVars, apiVars>>
    /\ UNCHANGED <<logFrames, rd, muxErr, outSink, errSink, pipe, scanPc, scanBuf,
                   loggedErrors>>
    /\ UNCHANGED closeVars

\* Start: containerMySQLPort
Start_Port ==
    /\ pc = "port"
    /\ \E r \in InspectOutcomes :
         /\ err' = r
         /\ IF r # NoErr
              THEN StartReturns(Nil, r)
              ELSE /\ pc' = "connect"
                   /\ UNCHANGED <<b, ret, seenErrors>>
    /\ rtCalls' = Append(rtCalls, "ContainerInspect")
    /\ UNCHANGED <<cfg, faults, createErr, schemaFile, removes, dbConn, image,
                   container, dbReady, stops, stopRet, stopAns, containerEnv>>
    /\ UNCHANGED <<pollVars, apiVars>>
    /\ UNCHANGED <<logFrames, rd, muxPc, muxErr, outSink, errSink, pipe, scanPc,
                   scanBuf, loggedErrors>>
    /\ UNCHANGED closeVars

\* Start: connectDB, the MySQLBox is built and waitForDB makes its context
Start_Connect ==
    /\ pc = "connect"
    /\ \E r \in OpenOutcomes :
         /\ err' = r
         /\ IF r # NoErr
              THEN /\ StartReturns(Nil, r)
                   /\ UNCHANGED <<dbConn, poller, elapsed>>
              ELSE /\ dbConn' = "open"
                   /\ b' = NewBox(cfg, HostPort)
                   /\ poller' = "POLLING"
                   /\ elapsed' = 0
                   /\ pc' = "ping"
                   /\ UNCHANGED <<ret, seenErrors>>
    /\ rtCalls' = Append(rtCalls, "sql.Open")
    /\ UNCHANGED <<cfg, faults, createErr, schemaFile, removes, image, container,
                   dbReady, stops, stopRet, stopAns, containerEnv>>
    /\ UNCHANGED <<probesOK, latePing, containerClosed, exitSent, exitRecv>>
    /\ UNCHANGED apiVars
    /\ UNCHANGED <<logFrames, rd, muxPc, muxErr, outSink, errSink, pipe, scanPc,
                   scanBuf, loggedErrors>>
    /\ UNCHANGED closeVars


(***************************************************************************)
(* waitForDB.  Time is counted in ticks of 500 ms since the context was    *)
(* made; it matters to the poller alone, so it advances in the poller's    *)
(* steps: a ping takes no time or one tick, the sleep one tick.            *)
(***************************************************************************)
ErrDeadline == Err("context deadline exceeded")
ErrRefused == Err("connection refused")

Min(x, y) == IF x < y THEN x ELSE y
\* elapsed is not counted beyond the tick after the deadline
Later(t, d) == Min(t + d, StartTimeoutTicks + 1)

PingTicks == {0, 1}

\* db.PingContext(ctx) issued at tick t0 and returning at tick t1: a context
\* already done answers DeadlineExceeded at once; one that ends during the
\* ping may cut it short
PingOutcomes(t0, t1) ==
    IF t0 >= StartTimeoutTicks
      THEN {ErrDeadline}
      ELSE (IF dbReady /\ container = "running" THEN {NoErr} ELSE {ErrRefused})
           \cup (IF t1 >= StartTimeoutTicks THEN {ErrDeadline} ELSE {})
           \cup Faulty({ErrRefused})

\* AfterPing without the errors.Is test: every failed ping is a timeout
AfterPing_AnyErrorTimesOut(r) ==
    IF r = NoErr THEN "READY" ELSE "TIMED_OUT"

\* AfterPing without the test of context.DeadlineExceeded
AfterPing_NeverTimesOut(r) ==
    IF r = NoErr THEN "READY" ELSE "POLLING"

\* waitForDB: the poller's state after a ping that answered r
AfterPing(r) ==
    IF r = NoErr THEN "READY"
    ELSE IF r = ErrDeadline THEN "TIMED_OUT"
    ELSE "POLLING"

\* waitForDB: PingContext and the two tests on its answer
waitForDB_Ping ==
    /\ pc = "ping"
    /\ \E d \in PingTicks : \E r \in PingOutcomes(elapsed, Later(elapsed, d)) :
         /\ latePing' = (elapsed >= StartTimeoutTicks)
         /\ elapsed' = Later(elapsed, d)
         /\ poller' = AfterPing(r)
         /\ probesOK' = IF r = NoErr THEN probesOK + 1 ELSE probesOK
         /\ CASE poller' = "READY"     -> StartReturns(b, NoErr)
              [] poller' = "TIMED_OUT" -> StartReturns(Nil, ErrTimeout)
              [] OTHER                 -> /\ pc' = "sleep"
                                          /\ UNCHANGED <<b, ret, seenErrors>>
    /\ UNCHANGED <<cfg, faults, err, createErr, schemaFile, removes, dbConn, image,
                   container, dbReady, rtCalls, stops, stopRet, stopAns, containerEnv>>
    /\ UNCHANGED <<containerClosed, exitSent, exitRecv>>
    /\ UNCHANGED apiVars
    /\ UNCHANGED <<logFrames, rd, muxPc, muxErr, outSink, errSink, pipe, scanPc,
                   scanBuf, loggedErrors>>
    /\ UNCHANGED closeVars

\* waitForDB: the select on containerClosed with its default case
SelectClosed(ch) == IF Len(ch) > 0 THEN "EXITED_EARLY" ELSE "POLLING"

\* waitForDB: time.Sleep, then the select
waitForDB_Sleep ==
    /\ pc = "sleep"
    /\ elapsed' = Later(elapsed, 1)
    /\ poller' = SelectClosed(containerClosed)
    /\ IF poller' = "EXITED_EARLY"
         THEN /\ containerClosed' = Tail(containerClosed)
              /\ exitRecv' = exitRecv + 1
              /\ StartReturns(Nil, ErrClosed)
         ELSE /\ pc' = "ping"
              /\ UNCHANGED <<containerClosed, exitRecv, b, ret, seenErrors>>
    /\ UNCHANGED <<cfg, faults, err, createErr, schemaFile, removes, dbConn, image,
                   container, dbReady, rtCalls, stops, stopRet, stopAns, containerEnv>>
    /\ UNCHANGED <<probesOK, latePing, exitSent>>
    /\ UNCHANGED apiVars
    /\ UNCHANGED <<logFrames, rd, muxPc, muxErr, outSink, errSink, pipe, scanPc,
                   scanBuf, loggedErrors>>
    /\ UNCHANGED closeVars

(***************************************************************************)
(* Stop.                                                                   *)
(***************************************************************************)
\* cleanupFiles: the schema file is closed and removed
cleanupFiles(box) ==
    IF box.hasSchemaFile
      THEN /\ schemaFile' = "removed"
           /\ removes' = removes + 1
      ELSE UNCHANGED <<schemaFile, removes>>

\* StopReturns with cleanupFiles called at the end of Stop instead of deferred
StopReturns_CleansOnSuccessOnly(e) ==
    /\ IF e = NoErr THEN cleanupFiles(b) ELSE UNCHANGED <<schemaFile, removes>>
    /\ stopRet' = e
    /\ stops' = stops + 1
    /\ pc' = "started"

\* a return of Stop, with its deferred cleanupFiles
StopReturns(e) ==
    /\ cleanupFiles(b)
    /\ stopRet' = e
    /\ stops' = stops + 1
    /\ pc' = "started"

\* Stop on a MySQLBox that Start returned: stopContainer
Stop_Container ==
    /\ pc = "started"
    /\ stops < MaxStops
    /\ \E r \in StopOutcomes :
         /\ stopAns' = r
         /\ IF r # NoErr
              THEN /\ StopReturns(r)
                   /\ UNCHANGED <<container, dbReady>>
              ELSE /\ container' = IF container = "running" THEN "exited" ELSE container
                   /\ dbReady' = FALSE
                   /\ pc' = "stop_wait"
                   /\ UNCHANGED <<schemaFile, removes, stopRet, stops>>
    /\ rtCalls' = Append(rtCalls, "ContainerStop")
    /\ UNCHANGED <<cfg, faults, b, ret, err, createErr, dbConn, image, containerEnv>>
    /\ UNCHANGED <<pollVars, logVars, apiVars>>
    /\ UNCHANGED closeVars

\* cli.ContainerWait with WaitConditionRemoved: "removed" on the message
\* channel once the container is removed, or an error on the error channel
\* (not-found when the container was gone before the daemon saw the request)
WaitOutcomes ==
    (IF container = "removed" THEN {Err("removed"), ErrNotFound} ELSE {})
    \cup Faulty({ErrTransport})

\* AfterWait with every answer on the error channel taken for not-found
AfterWait_SwallowsErrors(r) == NoErr

\* AfterWait without the errdefs.IsNotFound test
AfterWait_NotFoundIsError(r) ==
    IF r = Err("removed") THEN NoErr ELSE r

\* Stop: what the Wait loop returns for an answer of ContainerWait
AfterWait(r) ==
    IF r = Err("removed") \/ r = ErrNotFound THEN NoErr ELSE r

\* Stop: the loop that waits for the removal of the container
Stop_Wait ==
    /\ pc = "stop_wait"
    /\ \E r \in WaitOutcomes :
         /\ StopReturns(AfterWait(r))
         /\ stopAns' = r
    /\ rtCalls' = Append(rtCalls, "ContainerWait")
    /\ UNCHANGED <<cfg, faults, b, ret, err, createErr, dbConn, image, container,
                   dbReady, containerEnv>>
    /\ UNCHANGED <<pollVars, logVars, apiVars>>
    /\ UNCHANGED closeVars

(***************************************************************************)
(* The container and the daemon.                                           *)
(***************************************************************************)
\* mysqld starts to accept connections
MySQL_Ready ==
    /\ container = "running"
    /\ ~dbReady
    /\ dbReady' = TRUE
    /\ UNCHANGED <<cfg, faults, pc, b, ret, err, createErr, schemaFile, removes,
                   dbConn, image, container, rtCalls, stops, stopRet, stopAns, containerEnv>>
    /\ UNCHANGED <<pollVars, logVars, apiVars>>
    /\ UNCHANGED closeVars

\* the container's process exits on its own
Container_Exits ==
    /\ container = "running"
    /\ container' = "exited"
    /\ dbReady' = FALSE
    /\ UNCHANGED <<cfg, faults, pc, b, ret, err, createErr, schemaFile, removes,
                   dbConn, image, rtCalls, stops, stopRet, stopAns, containerEnv>>
    /\ UNCHANGED <<pollVars, logVars, apiVars>>
    /\ UNCHANGED closeVars

\* HostConfig.AutoRemove: the daemon removes the exited container
Daemon_AutoRemove ==
    /\ container = "exited"
    /\ container' = "removed"
    /\ UNCHANGED <<cfg, faults, pc, b, ret, err, createErr, schemaFile, removes,
                   dbConn, image, dbReady, rtCalls, stops, stopRet, stopAns, containerEnv>>
    /\ UNCHANGED <<pollVars, logVars, apiVars>>
    /\ UNCHANGED closeVars


(***************************************************************************)
(* readContainerLogs and its scanner goroutine.  Bytes are tokens: "\n",   *)
(* the literal "ERROR", and other text.                                    *)
(***************************************************************************)
Marker == <<"ERROR">>

\* strings.HasPrefix
HasPrefix(line, prefix) ==
    /\ Len(line) >= Len(prefix)
    /\ SubSeq(line, 1, Len(prefix)) = prefix

\* index of the first "\n" of buf, 0 when it has none
NewlineAt(buf) ==
    IF \E i \in 1..Len(buf) : buf[i] = "\n"
      THEN CHOOSE i \in 1..Len(buf) :
             /\ buf[i] = "\n"
             /\ \A j \in 1..(i - 1) : buf[j] # "\n"
      ELSE 0

\* ScanLine with strings.Contains in the place of strings.HasPrefix
ScanLine_Contains(errors, line) ==
    IF (\E i \in 1..Len(line) : HasPrefix(SubSeq(line, i, Len(line)), Marker))
       /\ cfg.LoggedErrors
      THEN Append(errors, line)
      ELSE errors

\* the scanner's loop body: the line is appended when it starts with "ERROR"
\* and a collector was configured
ScanLine(errors, line) ==
    IF HasPrefix(line, Marker) /\ cfg.LoggedErrors
      THEN Append(errors, line)
      ELSE errors

\* what StdCopy meets next on the log stream: the next frame, the end of the
\* stream once the container has exited, or a read error
ReadOutcomes ==
    (IF rd < Len(logFrames) THEN {"frame"} ELSE {})
    \cup (IF rd = Len(logFrames) /\ container \in {"exited", "removed"}
            THEN {"eof"} ELSE {})
    \cup Faulty({"closed body", "read error"})

\* readContainerLogs: cli.ContainerLogs, the pipe and the scanner goroutine
Mux_Logs ==
    /\ muxPc = "logs"
    /\ \E r \in LogsOutcomes :
         IF r # NoErr
           THEN /\ muxPc' = "done"
                /\ muxErr' = r
                /\ UNCHANGED <<pipe, scanPc>>
           ELSE /\ muxPc' = "copy"
                /\ pipe' = [data |-> <<>>, state |-> "open"]
                /\ scanPc' = "run"
                /\ muxErr' = muxErr
    /\ UNCHANGED <<logFrames, rd, outSink, errSink, scanBuf, loggedErrors, seenErrors>>
    /\ UNCHANGED <<lifeVars, pollVars, apiVars>>
    /\ UNCHANGED closeVars

\* SinkOf with the two writers of StdCopy exchanged
SinkOf_Exchanged(ch) == IF ch = "out" THEN "mw" ELSE "cout"

\* stdcopy.StdCopy: the sink a frame of channel ch goes to
SinkOf(ch) == IF ch = "out" THEN "cout" ELSE "mw"

\* PipeEnd without the test of the error's text
PipeEnd_AlwaysWithError(e) == "error"

\* PipeEnd where only a read on a closed body closes the pipe
PipeEnd_OtherErrorsLeaveOpen(e) == IF e = ErrClosedBody THEN "closed" ELSE "open"

\* readContainerLogs: how the pipe ends when StdCopy returned the error e:
\* pw.Close() for a read on a closed body, pw.CloseWithError(err) otherwise
PipeEnd(e) == IF e = ErrClosedBody THEN "closed" ELSE "error"

\* a send on an unbuffered channel, which waits for its receiver
ChanFull_Unbuffered(ch) == Len(ch) >= 0

\* a send on containerClosed, made with a buffer of one element, has to wait
ChanFull(ch) == Len(ch) >= 1

\* Mux_StdCopy sending on containerExit also when StdCopy returned an error
Mux_StdCopy_SignalsOnError ==
    /\ muxPc = "copy"
    /\ \E ev \in ReadOutcomes :
         CASE ev = "frame" ->
                LET f == logFrames[rd + 1] IN
                /\ rd' = rd + 1
                /\ IF SinkOf(f.ch) = "cout"
                     THEN /\ outSink' = IF cfg.Stdout THEN outSink \o f.data ELSE outSink
                          /\ UNCHANGED <<errSink, pipe, muxPc>>
                     ELSE /\ errSink' = IF cfg.Stderr THEN errSink \o f.data ELSE errSink
                          /\ pipe' = [pipe EXCEPT !.data = f.data]
                          /\ muxPc' = "pipe write"
                          /\ outSink' = outSink
                /\ UNCHANGED <<muxErr, containerClosed, exitSent>>
           [] ev = "eof" ->
                /\ ~ChanFull(containerClosed)
                /\ pipe' = [pipe EXCEPT !.state = "closed"]
                /\ containerClosed' = Append(containerClosed, TRUE)
                /\ exitSent' = [n |-> exitSent.n + 1,
                                at |-> IF exitSent.n = 0 THEN elapsed ELSE exitSent.at,
                                polling |-> IF exitSent.n = 0
                                              THEN poller
                                              ELSE exitSent.polling]
                /\ muxPc' = "done"
                /\ UNCHANGED <<rd, outSink, errSink, muxErr>>
           [] ev = "closed body" ->
                /\ pipe' = [pipe EXCEPT !.state = PipeEnd(ErrClosedBody)]
                /\ muxErr' = ErrClosedBody
                /\ muxPc' = "done"
                /\ UNCHANGED <<rd, outSink, errSink, containerClosed, exitSent>>
           [] ev = "read error" ->
                /\ pipe' = [pipe EXCEPT !.state = PipeEnd(ErrTransport)]
                /\ muxErr' = ErrTransport
                /\ muxPc' = "done"
                /\ ~ChanFull(containerClosed)
                /\ containerClosed' = Append(containerClosed, TRUE)
                /\ exitSent' = [n |-> exitSent.n + 1,
                                at |-> IF exitSent.n = 0 THEN elapsed ELSE exitSent.at,
                                polling |-> IF exitSent.n = 0
                                              THEN poller
                                              ELSE exitSent.polling]
                /\ UNCHANGED <<rd, outSink, errSink>>
    /\ UNCHANGED <<logFrames, scanPc, scanBuf, loggedErrors, seenErrors>>
    /\ UNCHANGED <<elapsed, poller, probesOK, latePing, exitRecv>>
    /\ UNCHANGED <<lifeVars, apiVars>>
    /\ UNCHANGED closeVars

\* readContainerLogs: one turn of stdcopy.StdCopy and, when it returns, the
\* rest of the function
Mux_StdCopy ==
    /\ muxPc = "copy"
    /\ \E ev \in ReadOutcomes :
         CASE ev = "frame" ->
                LET f == logFrames[rd + 1] IN
                /\ rd' = rd + 1
                /\ IF SinkOf(f.ch) = "cout"
                     THEN /\ outSink' = IF cfg.Stdout THEN outSink \o f.data ELSE outSink
                          /\ UNCHANGED <<errSink, pipe, muxPc>>
                     ELSE /\ errSink' = IF cfg.Stderr THEN errSink \o f.data ELSE errSink
                          /\ pipe' = [pipe EXCEPT !.data = f.data]
                          /\ muxPc' = "pipe write"
                          /\ outSink' = outSink
                /\ UNCHANGED <<muxErr, containerClosed, exitSent>>
           [] ev = "eof" ->
                /\ ~ChanFull(containerClosed)
                /\ pipe' = [pipe EXCEPT !.state = "closed"]
                /\ containerClosed' = Append(containerClosed, TRUE)
                /\ exitSent' = [n |-> exitSent.n + 1,
                                at |-> IF exitSent.n = 0 THEN elapsed ELSE exitSent.at,
                                polling |-> IF exitSent.n = 0
                                              THEN poller
                                              ELSE exitSent.polling]
                /\ muxPc' = "done"
                /\ UNCHANGED <<rd, outSink, errSink, muxErr>>
           [] ev = "closed body" ->
                /\ pipe' = [pipe EXCEPT !.state = PipeEnd(ErrClosedBody)]
                /\ muxErr' = ErrClosedBody
                /\ muxPc' = "done"
                /\ UNCHANGED <<rd, outSink, errSink, containerClosed, exitSent>>
           [] ev = "read error" ->
                /\ pipe' = [pipe EXCEPT !.state = PipeEnd(ErrTransport)]
                /\ muxErr' = ErrTransport
                /\ muxPc' = "done"
                /\ UNCHANGED <<rd, outSink, errSink, containerClosed, exitSent>>
    /\ UNCHANGED <<logFrames, scanPc, scanBuf, loggedErrors, seenErrors>>
    /\ UNCHANGED <<elapsed, poller, probesOK, latePing, exitRecv>>
    /\ UNCHANGED <<lifeVars, apiVars>>
    /\ UNCHANGED closeVars

\* io.Pipe: the Write of the multi-writer returns once the reader has taken
\* all its bytes
Mux_PipeWritten ==
    /\ muxPc = "pipe write"
    /\ pipe.data = <<>>
    /\ muxPc' = "copy"
    /\ UNCHANGED <<logFrames, rd, muxErr, outSink, errSink, pipe, scanPc, scanBuf,
                   loggedErrors, seenErrors>>
    /\ UNCHANGED <<lifeVars, pollVars, apiVars>>
    /\ UNCHANGED closeVars

\* the scanner goroutine: one turn of bufio.Scanner.Scan.  A line in the
\* buffer is returned; otherwise the scanner reads the pipe; at the end of
\* the pipe the rest of the buffer is the last line
Scanner_Scan ==
    /\ scanPc = "run"
    /\ LET i == NewlineAt(scanBuf) IN
       CASE i > 0 ->
              /\ loggedErrors' = ScanLine(loggedErrors, SubSeq(scanBuf, 1, i - 1))
              /\ scanBuf' = SubSeq(scanBuf, i + 1, Len(scanBuf))
              /\ UNCHANGED <<pipe, scanPc>>
         [] i = 0 /\ pipe.data # <<>> ->
              /\ scanBuf' = scanBuf \o pipe.data
              /\ pipe' = [pipe EXCEPT !.data = <<>>]
              /\ UNCHANGED <<loggedErrors, scanPc>>
         [] i = 0 /\ pipe.data = <<>> /\ pipe.state # "open" ->
              /\ loggedErrors' = IF scanBuf # <<>>
                                   THEN ScanLine(loggedErrors, scanBuf)
                                   ELSE loggedErrors
              /\ scanBuf' = <<>>
              /\ scanPc' = "done"
              /\ pipe' = pipe
         [] OTHER -> FALSE
    /\ UNCHANGED <<logFrames, rd, muxPc, muxErr, outSink, errSink, seenErrors>>
    /\ UNCHANGED <<lifeVars, pollVars, apiVars>>
    /\ UNCHANGED closeVars


(***************************************************************************)
(* The public operations on a *MySQLBox.  An operation returns            *)
(* (value, error) or panics.                                               *)
(***************************************************************************)
Returned(v, e) == [kind |-> "return", val |-> v, err |-> e]
Panicked(e) == [kind |-> "panic", val |-> "none", err |-> e]

\* the database answers queries
DBUp == container = "running" /\ dbReady

ErrQuery == Err("query failed")
ErrTruncate == Err("truncate failed")

\* db.Exec of TRUNCATE TABLE `t`: fails when the server is gone, when the
\* table does not exist, and when the server refuses (the names in F)
ExecTruncate(tbls, t, F) ==
    IF DBUp /\ t \in DOMAIN tbls /\ tbls[t] # Absent /\ t \notin F
      THEN NoErr
      ELSE ErrTruncate

\* the orders in which the catalog query can return the tables of tbls
Catalogs(tbls) ==
    LET names == { t \in DOMAIN tbls : tbls[t] # Absent } IN
    { s \in [1..Cardinality(names) -> names] :
        \A i, j \in DOMAIN s : i # j => s[i] # s[j] }

\* CleanAllTables: the loop over the rows of the catalog from row i on
RECURSIVE CleanAllLoop(_, _, _, _, _)
CleanAllLoop(rows, i, tbls, excluded, F) ==
    IF i > Len(rows)
      THEN [ret |-> Returned("none", NoErr), tables |-> tbls, execs |-> <<>>]
      ELSE IF rows[i] \in excluded
             THEN CleanAllLoop(rows, i + 1, tbls, excluded, F)
             ELSE IF ExecTruncate(tbls, rows[i], F) # NoErr
                    THEN [ret |-> Panicked(ErrTruncate), tables |-> tbls,
                          execs |-> <<rows[i]>>]
                    ELSE LET rest == CleanAllLoop(rows, i + 1,
                                                  [tbls EXCEPT ![rows[i]] = 0],
                                                  excluded, F)
                         IN [rest EXCEPT !.execs = <<rows[i]>> \o @]

\* CleanAllTablesOn without the test of excludedTables
CleanAllTablesOn_IgnoresExcluded(box, tbls, rows, F) ==
    IF box.nil
      THEN [ret |-> Returned("none", ErrNil), tables |-> tbls, execs |-> <<>>,
            queries |-> 0]
      ELSE IF ~DBUp
             THEN [ret |-> Panicked(ErrQuery), tables |-> tbls, execs |-> <<>>,
                   queries |-> 1]
             ELSE [queries |-> 1] @@ CleanAllLoop(rows, 1, tbls, {}, F)

\* CleanAllTables on box, the catalog query answering rows
CleanAllTablesOn(box, tbls, rows, F) ==
    IF box.nil
      THEN [ret |-> Returned("none", ErrNil), tables |-> tbls, execs |-> <<>>,
            queries |-> 0]
      ELSE IF ~DBUp
             THEN [ret |-> Panicked(ErrQuery), tables |-> tbls, execs |-> <<>>,
                   queries |-> 1]
             ELSE [queries |-> 1] @@ CleanAllLoop(rows, 1, tbls, box.doNotCleanTables, F)

\* CleanTablesLoop returning at the first TRUNCATE that fails
RECURSIVE CleanTablesLoop_FailFast(_, _, _, _)
CleanTablesLoop_FailFast(names, i, tbls, F) ==
    IF i > Len(names)
      THEN [ret |-> Returned("none", NoErr), tables |-> tbls, execs |-> <<>>]
      ELSE IF ExecTruncate(tbls, names[i], F) # NoErr
             THEN [ret |-> Returned("none", NoErr), tables |-> tbls,
                   execs |-> <<names[i]>>]
             ELSE LET rest == CleanTablesLoop_FailFast(names, i + 1,
                                  [tbls EXCEPT ![names[i]] = 0], F)
                  IN [rest EXCEPT !.execs = <<names[i]>> \o @]

\* CleanTables: the loop over the arguments from argument i on
RECURSIVE CleanTablesLoop(_, _, _, _)
CleanTablesLoop(names, i, tbls, F) ==
    IF i > Len(names)
      THEN [ret |-> Returned("none", NoErr), tables |-> tbls, execs |-> <<>>]
      ELSE LET rest == IF ExecTruncate(tbls, names[i], F) # NoErr
                         THEN CleanTablesLoop(names, i + 1, tbls, F)
                         ELSE CleanTablesLoop(names, i + 1,
                                              [tbls EXCEPT ![names[i]] = 0], F)
           IN [rest EXCEPT !.execs = <<names[i]>> \o @]

\* CleanTablesOn without the test of the receiver: the first b.db panics
CleanTablesOn_NoNilTest(box, tbls, names, F) ==
    IF box.nil /\ names # <<>>
      THEN [ret |-> Panicked(Err("nil pointer dereference")), tables |-> tbls,
            execs |-> <<>>, queries |-> 0]
      ELSE [queries |-> 0] @@ CleanTablesLoop(names, 1, tbls, F)

\* CleanTablesOn skipping the names of doNotCleanTables, as CleanAllTables does
CleanTablesOn_HonoursExclusions(box, tbls, names, F) ==
    IF box.nil
      THEN [ret |-> Returned("none", ErrNil), tables |-> tbls, execs |-> <<>>,
            queries |-> 0]
      ELSE [queries |-> 0] @@
           CleanTablesLoop(SelectSeq(names, LAMBDA n : n \notin box.doNotCleanTables),
                           1, tbls, F)

\* CleanTables on box
CleanTablesOn(box, tbls, names, F) ==
    IF box.nil
      THEN [ret |-> Returned("none", ErrNil), tables |-> tbls, execs |-> <<>>,
            queries |-> 0]
      ELSE [queries |-> 0] @@ CleanTablesLoop(names, 1, tbls, F)

\* the accessors DSN, DB and ContainerName
DSNOn(box) == IF box.nil THEN Returned("none", ErrNil) ELSE Returned(box.dsn, NoErr)
DBOn(box) == IF box.nil THEN Returned("none", ErrNil) ELSE Returned("db", NoErr)
ContainerNameOn(box) ==
    IF box.nil THEN Returned("none", ErrNil) ELSE Returned("mysqlbox-1", NoErr)

\* Stop, up to its test of the receiver
StopOnNil(box) == IF box.nil THEN Returned("none", ErrNil) ELSE Returned("none", NoErr)

\* the Must* wrappers: panic(err) when the operation returned an error
Must(r) == IF r.kind = "return" /\ r.err # NoErr THEN Panicked(r.err) ELSE r

\* the caller is not inside Start or Stop
CallerFree == pc \in {"idle", "failed", "started"}

\* the names a caller passes to CleanTables
ArgNames == TableNames \cup {"non_existent"}
\* the argument lists of CleanTables: up to MaxArgs names, each once
ArgLists == { s \in SeqsUpTo(ArgNames, MaxArgs) :
                \A i, j \in DOMAIN s : i # j => s[i] # s[j] }
\* the elements of a sequence
Range(s) == { s[i] : i \in DOMAIN s }

\* no operation invoked since the database last changed under the caller
NoCall ==
    [op |-> "none", recv |-> Nil, args |-> <<>>, ret |-> Returned("none", NoErr),
     pre |-> [t \in TableNames |-> Absent], rows |-> <<>>, fail |-> {}, up |-> FALSE,
     queries |-> 0, execs |-> <<>>]

\* the record of an operation: its name, receiver and arguments, what it
\* returned, the tables before it, the catalog rows it read, the TRUNCATEs
\* the server refused, whether the database was up, and the db.Query and
\* db.Exec calls it made
Called(op, args, res, rows, F, queries, execs) ==
    last' = [op |-> op, recv |-> b, args |-> args, ret |-> res, pre |-> tables,
             rows |-> rows, fail |-> F, up |-> DBUp, queries |-> queries,
             execs |-> execs]

\* DSN, DB, ContainerName and their Must* wrappers
Accessor ==
    /\ CallerFree
    /\ \E op \in {"DSN", "DB", "ContainerName"} : \E must \in BOOLEAN :
         LET r == CASE op = "DSN" -> DSNOn(b)
                    [] op = "DB" -> DBOn(b)
                    [] op = "ContainerName" -> ContainerNameOn(b)
         IN Called(IF must THEN "Must" \o op ELSE op, <<>>,
                   IF must THEN Must(r) ELSE r, <<>>, {}, 0, <<>>)
    /\ UNCHANGED <<tables, lifeVars, pollVars, logVars>>
    /\ UNCHANGED closeVars

\* Stop and MustStop on a nil *MySQLBox
Stop_Nil ==
    /\ CallerFree
    /\ b.nil
    /\ \E must \in BOOLEAN :
         Called(IF must THEN "MustStop" ELSE "Stop", <<>>,
                IF must THEN Must(StopOnNil(b)) ELSE StopOnNil(b), <<>>, {}, 0, <<>>)
    /\ UNCHANGED <<tables, lifeVars, pollVars, logVars>>
    /\ UNCHANGED closeVars

\* CleanAllTables and MustCleanAllTables
CleanAllTables ==
    /\ CallerFree
    /\ \E rows \in Catalogs(tables) : \E F \in SUBSET Range(rows) :
       \E must \in BOOLEAN :
         LET r == CleanAllTablesOn(b, tables, rows, F) IN
         /\ tables' = r.tables
         /\ Called(IF must THEN "MustCleanAllTables" ELSE "CleanAllTables", <<>>,
                   IF must THEN Must(r.ret) ELSE r.ret,
                   IF r.queries > 0 THEN rows ELSE <<>>, F, r.queries, r.execs)
    /\ UNCHANGED <<lifeVars, pollVars, logVars>>
    /\ UNCHANGED closeVars

\* CleanTables and MustCleanTables
CleanTables ==
    /\ CallerFree
    /\ \E names \in ArgLists : \E F \in SUBSET (Range(names) \cap TableNames) :
       \E must \in BOOLEAN :
         LET r == CleanTablesOn(b, tables, names, F) IN
         /\ tables' = r.tables
         /\ Called(IF must THEN "MustCleanTables" ELSE "CleanTables", names,
                   IF must THEN Must(r.ret) ELSE r.ret, <<>>, F, r.queries, r.execs)
    /\ UNCHANGED <<lifeVars, pollVars, logVars>>
    /\ UNCHANGED closeVars

\* the databases of the server a caller asks a connection to
DBNames == {"testing", "db_one", "db_two"}

\* ConnectDBOn with the descriptor of the box returned as it is
ConnectDBOn_KeepsDatabase(box, dbName) ==
    Returned([db |-> "db", dsn |-> box.dsn], NoErr)

\* ConnectDB on box: connectDB with the port and the credential of the box
\* and the name asked
ConnectDBOn(box, dbName) ==
    Returned([db |-> "db", dsn |-> FormatDSN(box.port, dbName, box.dsn.passwd)],
             NoErr)

\* ConnectDB on a MySQLBox that Start returned
ConnectDB ==
    /\ CallerFree
    /\ ~b.nil
    /\ \E name \in DBNames :
         Called("ConnectDB", <<name>>, ConnectDBOn(b, name), <<>>, {}, 0, <<>>)
    /\ UNCHANGED <<tables, lifeVars, pollVars, logVars>>
    /\ UNCHANGED closeVars

\* another client of the database creates or drops a table, or changes its rows
DB_Changes ==
    /\ DBUp
    /\ \E t \in TableNames : \E v \in {Absent} \cup 0..MaxRows :
         /\ v # tables[t]
         /\ tables' = [tables EXCEPT ![t] = v]
    /\ last' = NoCall
    /\ UNCHANGED <<lifeVars, pollVars, logVars>>
    /\ UNCHANGED closeVars

(***************************************************************************)
(* Specifications.                                                         *)
(***************************************************************************)
\* payloads of the frames of the err channel and of the out channel
ErrPayloads == { <<"ERROR", "a", "\n">>, <<"ERROR", "b", "\n">>,
                 <<"a", "ERROR", "\n">>, <<"ERROR", "b">>, <<"\n">> }
OutPayloads == { <<"ERROR", "a", "\n">> }
Frames == [ch : {"err"}, data : ErrPayloads] \cup [ch : {"out"}, data : OutPayloads]

\* the state before Start is called, but for the Config, the environment and
\* the log stream the container will write
InitCommon ==
    /\ pc = "idle"
    /\ b = Nil
    /\ ret = [b |-> Nil, err |-> NoErr]
    /\ err = NoErr
    /\ createErr = NoErr
    /\ schemaFile = "none"
    /\ removes = 0
    /\ dbConn = "none"
    /\ container = "absent"
    /\ dbReady = FALSE
    /\ rtCalls = <<>>
    /\ elapsed = 0
    /\ poller = "IDLE"
    /\ probesOK = 0
    /\ latePing = FALSE
    /\ containerClosed = <<>>
    /\ exitSent = [n |-> 0, at |-> 0, polling |-> "IDLE"]
    /\ exitRecv = 0
    /\ rd = 0
    /\ muxPc = "none"
    /\ muxErr = NoErr
    /\ outSink = <<>>
    /\ errSink = <<>>
    /\ pipe = [data |-> <<>>, state |-> "none"]
    /\ scanPc = "none"
    /\ scanBuf = <<>>
    /\ loggedErrors = <<>>
    /\ seenErrors = <<>>
    /\ stops = 0
    /\ stopRet = NoErr
    /\ stopAns = NoErr
    /\ containerEnv = <<>>
    /\ tables = [t \in TableNames |-> Absent]
    /\ last = NoCall
    /\ clogClose = <<>>
    /\ clog = "none"
    /\ closer = "none"
    /\ senders = [spawned |-> 0, parked |-> 0, done |-> 0]

\* Start and Stop against a daemon that may fail, with a short log stream
Init ==
    /\ InitCommon
    /\ cfg \in [InitialSQL : BOOLEAN, RootPassword : {"", "secret"},
                Database : {"testing"}, Stdout : {FALSE}, Stderr : {FALSE},
                LoggedErrors : {TRUE}, DoNotCleanTables : {{}}]
    /\ faults \in BOOLEAN
    /\ image \in BOOLEAN
    /\ logFrames \in { <<>>, <<[ch |-> "err", data |-> <<"ERROR", "a", "\n">>]>> }

Next ==
    \/ Start_Schema
    \/ Start_Client
    \/ Start_Create
    \/ Start_Pull
    \/ Start_Create2
    \/ Start_ContainerStart
    \/ Start_Port
    \/ Start_Connect
    \/ waitForDB_Ping
    \/ waitForDB_Sleep
    \/ Stop_Container
    \/ Stop_Wait
    \/ MySQL_Ready
    \/ Container_Exits
    \/ Daemon_AutoRemove
    \/ Mux_Logs
    \/ Mux_StdCopy
    \/ Mux_PipeWritten
    \/ Scanner_Scan

Spec == Init /\ [][Next]_vars

\* Start against a daemon that does not fail and has the image, until the
\* container exits, with every log stream of up to MaxFrames frames
InitLog ==
    /\ InitCommon
    /\ cfg \in { c \in [InitialSQL : {TRUE}, RootPassword : {""},
                         Database : {"testing"}, Stdout : BOOLEAN, Stderr : BOOLEAN,
                         LoggedErrors : BOOLEAN, DoNotCleanTables : {{}}] :
                   /\ c.Stderr => c.Stdout
                   /\ c.Stdout => c.LoggedErrors }
    /\ faults = FALSE
    /\ image = TRUE
    /\ logFrames \in SeqsUpTo(Frames, MaxFrames)

NextLog ==
    \/ Start_Schema
    \/ Start_Client
    \/ Start_Create
    \/ Start_ContainerStart
    \/ Start_Port
    \/ Start_Connect
    \/ waitForDB_Ping
    \/ waitForDB_Sleep
    \/ MySQL_Ready
    \/ Container_Exits
    \/ Daemon_AutoRemove
    \/ Mux_Logs
    \/ Mux_StdCopy
    \/ Mux_PipeWritten
    \/ Scanner_Scan

SpecLog == InitLog /\ [][NextLog]_vars

\* Start and Stop where the goroutine of waitForDB keeps running: every
\* PingContext returns and every Sleep ends
SpecFair ==
    Spec /\ WF_vars(waitForDB_Ping) /\ WF_vars(waitForDB_Sleep)

\* Start and Stop against a daemon that answers: a container that has exited
\* is removed (AutoRemove), and ContainerWait delivers on one of its channels
SpecStop ==
    Spec /\ WF_vars(Daemon_AutoRemove) /\ WF_vars(Stop_Wait)

\* Start and Stop where the goroutine of readContainerLogs and its scanner
\* goroutine keep running
SpecMux ==
    Spec /\ WF_vars(Mux_StdCopy) /\ WF_vars(Mux_PipeWritten) /\ WF_vars(Scanner_Scan)


\* the public operations on a nil *MySQLBox and on one that Start has just
\* returned, whose database has any tables
StartedBox(c) ==
    /\ pc = "started"
    /\ b = NewBox(c, HostPort)
    /\ ret = [b |-> b, err |-> NoErr]
    /\ schemaFile = "open"
    /\ dbConn = "open"
    /\ container = "running"
    /\ dbReady = TRUE
    /\ rtCalls = <<"ContainerCreate", "ContainerStart", "ContainerInspect", "sql.Open">>
    /\ poller = "READY"
    /\ probesOK = 1
    /\ muxPc = "copy"
    /\ pipe = [data |-> <<>>, state |-> "open"]
    /\ scanPc = "run"

InitAPI ==
    /\ cfg \in { c \in [InitialSQL : {TRUE}, RootPassword : {"", "secret"},
                         Database : {"testing"},
                         Stdout : {FALSE}, Stderr : {FALSE}, LoggedErrors : {FALSE},
                         DoNotCleanTables : SUBSET TableNames] :
                   c.RootPassword # "" => c.DoNotCleanTables = {} }
    /\ faults = FALSE
    /\ image = TRUE
    /\ logFrames = <<>>
    /\ \/ InitCommon
       \/ /\ StartedBox(cfg)
          /\ err = NoErr /\ createErr = NoErr /\ removes = 0 /\ elapsed = 0
          /\ latePing = FALSE
          /\ containerClosed = <<>>
          /\ exitSent = [n |-> 0, at |-> 0, polling |-> "IDLE"]
          /\ exitRecv = 0 /\ rd = 0 /\ muxErr = NoErr
          /\ outSink = <<>> /\ errSink = <<>> /\ scanBuf = <<>>
          /\ loggedErrors = <<>> /\ seenErrors = <<>>
          /\ stops = 0 /\ stopRet = NoErr /\ stopAns = NoErr
          /\ containerEnv = EnvVars(cfg)
          /\ tables \in [TableNames -> {Absent} \cup 0..MaxRows]
          /\ last = NoCall
          /\ clogClose = <<>> /\ clog = "none" /\ closer = "none"
          /\ senders = [spawned |-> 0, parked |-> 0, done |-> 0]

NextAPI ==
    \/ Accessor
    \/ Stop_Nil
    \/ CleanAllTables
    \/ CleanTables
    \/ DB_Changes
    \/ ConnectDB
    \/ Container_Exits

SpecAPI == InitAPI /\ [][NextAPI]_vars


(***************************************************************************)
(* The earlier Start and Stop, which close the log reader on a signal sent *)
(* over the channel clogClose.  They have no pull, no scanner and no       *)
(* ContainerWait; the ping loop runs in Start itself.                      *)
(***************************************************************************)
\* what the earlier Start and Stop never touch
restVars == <<cfg, faults, err, createErr, image, stopAns, containerEnv, poller,
              probesOK, latePing, containerClosed, exitSent, exitRecv, logFrames,
              pipe, scanPc, scanBuf, loggedErrors, seenErrors, apiVars>>

\* the zero value of a channel: a send on it blocks forever
NilChan == "nil"
\* the MySQLBox literal at the end of the earlier Start: it has no clogClose
\* key, so the field keeps its zero value
BoxOf(c, port) ==
    [nil |-> FALSE,
     dsn |-> FormatDSN(port, c.Database, c.RootPassword),
     port |-> port,
     containerID |-> "cid",
     databaseName |-> c.Database,
     doNotCleanTables |-> c.DoNotCleanTables,
     clogClose |-> NilChan]

\* a return of the earlier Start, with its deferred Close and Remove of the
\* schema file
Returns0(box, e) ==
    /\ pc' = IF e = NoErr THEN "started" ELSE "failed"
    /\ b' = box
    /\ ret' = [b |-> box, err |-> e]
    /\ IF schemaFile = "open"
         THEN /\ schemaFile' = "removed"
              /\ removes' = removes + 1
         ELSE UNCHANGED <<schemaFile, removes>>

\* the earlier Start up to make(chan bool, 1): the schema file, the client
\* and ContainerCreate
Start0_Create ==
    /\ pc = "idle"
    /\ \E s \in (IF cfg.InitialSQL THEN SchemaOutcomes ELSE {"ok"}) :
       \E c \in ClientOutcomes : \E r \in CreateOutcomes :
         LET e == IF s # "ok" THEN Err(s) ELSE IF c # NoErr THEN c ELSE r IN
         IF e # NoErr
           THEN /\ pc' = "failed"
                /\ ret' = [b |-> Nil, err |-> e]
                /\ schemaFile' = IF cfg.InitialSQL /\ s # "tempfile"
                                   THEN "removed" ELSE schemaFile
                /\ removes' = IF cfg.InitialSQL /\ s # "tempfile"
                                THEN removes + 1 ELSE removes
                /\ rtCalls' = IF s = "ok" /\ c = NoErr
                                THEN Append(rtCalls, "ContainerCreate") ELSE rtCalls
                /\ UNCHANGED <<container, clogClose>>
           ELSE /\ pc' = "container start"
                /\ schemaFile' = IF cfg.InitialSQL THEN "open" ELSE schemaFile
                /\ container' = "created"
                /\ clogClose' = <<>>
                /\ rtCalls' = Append(rtCalls, "ContainerCreate")
                /\ UNCHANGED <<ret, removes>>
    /\ UNCHANGED <<b, dbConn, dbReady, stops, stopRet, elapsed, rd, muxPc, muxErr,
                   outSink, errSink, clog, closer, senders>>
    /\ UNCHANGED restVars

\* the earlier Start: cli.ContainerStart, then the goroutine of the logs
Start0_ContainerStart ==
    /\ pc = "container start"
    /\ \E r \in StartOutcomes :
         IF r # NoErr
           THEN /\ Returns0(Nil, r)
                /\ UNCHANGED <<container, muxPc>>
           ELSE /\ container' = "running"
                /\ muxPc' = "logs"
                /\ pc' = "inspect"
                /\ UNCHANGED <<b, ret, schemaFile, removes>>
    /\ rtCalls' = Append(rtCalls, "ContainerStart")
    /\ UNCHANGED <<dbConn, dbReady, stops, stopRet, elapsed, rd, muxErr, outSink,
                   errSink>>
    /\ UNCHANGED <<restVars, closeVars>>

\* the goroutine of the logs: it returns when the caller gave no writer and
\* when cli.ContainerLogs fails; otherwise it starts the goroutine that
\* ranges over clogClose
Start0_Logs ==
    /\ muxPc = "logs"
    /\ IF ~cfg.Stdout /\ ~cfg.Stderr
         THEN /\ muxPc' = "done"
              /\ UNCHANGED <<muxErr, clog, closer>>
         ELSE \E r \in LogsOutcomes :
                IF r # NoErr
                  THEN /\ muxPc' = "done"
                       /\ muxErr' = r
                       /\ UNCHANGED <<clog, closer>>
                  ELSE /\ muxPc' = "copy"
                       /\ clog' = "open"
                       /\ closer' = "range"
                       /\ muxErr' = muxErr
    /\ UNCHANGED <<pc, b, ret, schemaFile, removes, dbConn, container, dbReady,
                   rtCalls, stops, stopRet, elapsed, rd, outSink, errSink,
                   clogClose, senders>>
    /\ UNCHANGED restVars

\* the goroutine "for range clogClose": the first value received closes the
\* log reader and ends the goroutine
Start0_Closer ==
    /\ closer = "range"
    /\ Len(clogClose) > 0
    /\ clogClose' = Tail(clogClose)
    /\ clog' = "closed"
    /\ closer' = "done"
    /\ UNCHANGED <<pc, b, ret, schemaFile, removes, dbConn, container, dbReady,
                   rtCalls, stops, stopRet, elapsed, rd, muxPc, muxErr, outSink,
                   errSink, senders>>
    /\ UNCHANGED restVars

\* what StdCopy meets next on the log reader of the earlier Start: a read on
\* a closed reader fails
ReadOutcomes0 ==
    IF clog = "closed"
      THEN {"closed body"}
      ELSE (IF rd < Len(logFrames) THEN {"frame"} ELSE {})
           \cup (IF rd = Len(logFrames) /\ container \in {"exited", "removed"}
                   THEN {"eof"} ELSE {})
           \cup Faulty({"read error"})

\* the goroutine of the logs: stdcopy.StdCopy(cout, cerr, clog); the goroutine
\* returns when StdCopy does, and a nil writer is io.Discard
Start0_StdCopy ==
    /\ muxPc = "copy"
    /\ \E ev \in ReadOutcomes0 :
         CASE ev = "frame" ->
                LET f == logFrames[rd + 1] IN
                /\ rd' = rd + 1
                /\ outSink' = IF f.ch = "out" /\ cfg.Stdout
                                THEN outSink \o f.data ELSE outSink
                /\ errSink' = IF f.ch = "err" /\ cfg.Stderr
                                THEN errSink \o f.data ELSE errSink
                /\ UNCHANGED <<muxPc, muxErr>>
           [] ev = "eof" ->
                /\ muxPc' = "done"
                /\ UNCHANGED <<rd, outSink, errSink, muxErr>>
           [] ev = "closed body" ->
                /\ muxPc' = "done"
                /\ muxErr' = ErrClosedBody
                /\ UNCHANGED <<rd, outSink, errSink>>
           [] ev = "read error" ->
                /\ muxPc' = "done"
                /\ muxErr' = ErrTransport
                /\ UNCHANGED <<rd, outSink, errSink>>
    /\ UNCHANGED <<pc, b, ret, schemaFile, removes, dbConn, container, dbReady,
                   rtCalls, stops, stopRet, elapsed>>
    /\ UNCHANGED <<restVars, closeVars>>

\* the earlier Start: cli.ContainerInspect and the host port of 3306/tcp
Start0_Inspect ==
    /\ pc = "inspect"
    /\ \E r \in InspectOutcomes :
         IF r # NoErr
           THEN Returns0(Nil, r)
           ELSE /\ pc' = "open"
                /\ UNCHANGED <<b, ret, schemaFile, removes>>
    /\ rtCalls' = Append(rtCalls, "ContainerInspect")
    /\ UNCHANGED <<dbConn, container, dbReady, stops, stopRet, elapsed, rd, muxPc,
                   muxErr, outSink, errSink>>
    /\ UNCHANGED <<restVars, closeVars>>

\* the earlier Start: sql.Open and the context of the ping loop
Start0_Open ==
    /\ pc = "open"
    /\ \E r \in OpenOutcomes :
         IF r # NoErr
           THEN /\ Returns0(Nil, r)
                /\ UNCHANGED dbConn
           ELSE /\ dbConn' = "open"
                /\ pc' = "ping0"
                /\ UNCHANGED <<b, ret, schemaFile, removes>>
    /\ elapsed' = 0
    /\ UNCHANGED <<container, dbReady, rtCalls, stops, stopRet, rd, muxPc, muxErr,
                   outSink, errSink>>
    /\ UNCHANGED <<restVars, closeVars>>

\* the earlier Start: db.PingContext in the loop; at the deadline Start
\* signals clogClose and fails
Start0_Ping ==
    /\ pc = "ping0"
    /\ \E d \in PingTicks : \E r \in PingOutcomes(elapsed, Later(elapsed, d)) :
         /\ elapsed' = Later(elapsed, d)
         /\ CASE r = NoErr ->
                    /\ Returns0(BoxOf(cfg, HostPort), NoErr)
                    /\ UNCHANGED clogClose
              [] r = ErrDeadline ->
                    /\ ~ChanFull(clogClose)
                    /\ clogClose' = Append(clogClose, TRUE)
                    /\ Returns0(Nil, ErrTimeout)
              [] OTHER ->
                    /\ pc' = "sleep0"
                    /\ UNCHANGED <<b, ret, schemaFile, removes, clogClose>>
    /\ UNCHANGED <<dbConn, container, dbReady, rtCalls, stops, stopRet, rd, muxPc,
                   muxErr, outSink, errSink, clog, closer, senders>>
    /\ UNCHANGED restVars

\* the earlier Start: time.Sleep in the ping loop
Start0_Sleep ==
    /\ pc = "sleep0"
    /\ elapsed' = Later(elapsed, 1)
    /\ pc' = "ping0"
    /\ UNCHANGED <<b, ret, schemaFile, removes, dbConn, container, dbReady, rtCalls,
                   stops, stopRet, rd, muxPc, muxErr, outSink, errSink>>
    /\ UNCHANGED <<restVars, closeVars>>

\* the earlier Stop on a started box: stopContainer returns the error of
\* cli.ContainerStop, and its deferred function spawns the goroutine that
\* sends on b.clogClose
Stop0 ==
    /\ pc = "started"
    /\ stops < MaxStops
    /\ \E r \in StopOutcomes :
         /\ stopRet' = r
         /\ container' = IF r = NoErr /\ container = "running"
                           THEN "exited" ELSE container
         /\ dbReady' = IF r = NoErr THEN FALSE ELSE dbReady
    /\ stops' = stops + 1
    /\ senders' = [senders EXCEPT !.spawned = @ + 1]
    /\ rtCalls' = Append(rtCalls, "ContainerStop")
    /\ UNCHANGED <<pc, b, ret, schemaFile, removes, dbConn, elapsed, rd, muxPc,
                   muxErr, outSink, errSink, clogClose, clog, closer>>
    /\ UNCHANGED restVars

\* the goroutine of stopContainer: "b.clogClose <- true".  On a nil channel
\* the send never returns; on the channel of Start it waits for room
stopContainer0_Send ==
    /\ senders.spawned > 0
    /\ IF b.clogClose = NilChan
         THEN /\ senders' = [senders EXCEPT !.spawned = @ - 1, !.parked = @ + 1]
              /\ UNCHANGED clogClose
         ELSE /\ ~ChanFull(clogClose)
              /\ clogClose' = Append(clogClose, TRUE)
              /\ senders' = [senders EXCEPT !.spawned = @ - 1, !.done = @ + 1]
    /\ UNCHANGED <<pc, b, ret, schemaFile, removes, dbConn, container, dbReady,
                   rtCalls, stops, stopRet, elapsed, rd, muxPc, muxErr, outSink,
                   errSink, clog, closer>>
    /\ UNCHANGED restVars

\* the earlier Start and Stop against a daemon that may fail, with a log
\* stream of at most one frame
InitClose ==
    /\ InitCommon
    /\ cfg \in [InitialSQL : {TRUE}, RootPassword : {""},
                Database : {"testing"}, Stdout : BOOLEAN, Stderr : BOOLEAN,
                LoggedErrors : {FALSE}, DoNotCleanTables : {{}}]
    /\ faults \in BOOLEAN
    /\ image = TRUE
    /\ logFrames \in { <<>>, <<[ch |-> "err", data |-> <<"a", "\n">>]>> }

NextClose ==
    \/ Start0_Create
    \/ Start0_ContainerStart
    \/ Start0_Logs
    \/ Start0_Closer
    \/ Start0_StdCopy
    \/ Start0_Inspect
    \/ Start0_Open
    \/ Start0_Ping
    \/ Start0_Sleep
    \/ Stop0
    \/ stopContainer0_Send
    \/ MySQL_Ready
    \/ Container_Exits
    \/ Daemon_AutoRemove

\* every goroutine that can take a step takes it: the goroutine of the
\* logs, the one ranging over clogClose and the senders of stopContainer
SpecClose ==
    /\ InitClose
    /\ [][NextClose]_vars
    /\ WF_vars(Start0_Logs)
    /\ WF_vars(Start0_Closer)
    /\ WF_vars(Start0_StdCopy)
    /\ WF_vars(stopContainer0_Send)


(***************************************************************************)
(* Properties.                                                             *)
(***************************************************************************)
Terminal == {"READY", "TIMED_OUT", "EXITED_EARLY"}

\* Start has returned to its caller
StartReturned == pc \in {"started", "failed", "stop_wait"}

IsPrefix(s, t) == Len(s) <= Len(t) /\ SubSeq(t, 1, Len(s)) = s

\* the bytes of the err channel in a sequence of frames
RECURSIVE ErrBytes(_)
ErrBytes(frames) ==
    IF frames = <<>> THEN <<>>
    ELSE (IF Head(frames).ch = "err" THEN Head(frames).data ELSE <<>>)
         \o ErrBytes(Tail(frames))

\* the lines of a byte sequence: the runs between "\n", and the run after the
\* last "\n" when it is not empty
RECURSIVE LinesFrom(_, _)
LinesFrom(bytes, cur) ==
    IF bytes = <<>> THEN (IF cur = <<>> THEN <<>> ELSE <<cur>>)
    ELSE IF Head(bytes) = "\n" THEN <<cur>> \o LinesFrom(Tail(bytes), <<>>)
    ELSE LinesFrom(Tail(bytes), Append(cur, Head(bytes)))
LinesOf(bytes) == LinesFrom(bytes, <<>>)

\* the lines that begin with the literal "ERROR"
BeginsWithERROR(line) == line # <<>> /\ line[1] = "ERROR"
ErrorLines(lines) == SelectSeq(lines, BeginsWithERROR)

IsMust(op) == op \in {"MustDSN", "MustDB", "MustContainerName", "MustStop",
                      "MustCleanTables", "MustCleanAllTables"}

\* the tables of the database as the last operation found it
Existed(t) == last.pre[t] # Absent

\* C1: when Stop returns nil on an instance that Start returned, the daemon
\* has answered the removal wait and the container is removed
C1_StopSuccessMeansRemoved ==
    (pc = "started" /\ stops > 0 /\ stopRet = NoErr)
        => /\ container = "removed"
           /\ rtCalls[Len(rtCalls)] = "ContainerWait"

C1_Witness ==
    /\ pc = "started" /\ stops > 0 /\ stopRet = NoErr
    /\ ret.err = NoErr /\ container = "removed"

\* C2: Start returns either a box and a nil error after a ping has answered
\* nil, or a nil box and an error
C2_StartAllOrNothing ==
    StartReturned
        => \/ ~ret.b.nil /\ ret.err = NoErr /\ probesOK >= 1 /\ poller = "READY"
           \/ ret.b.nil /\ ret.err # NoErr

C2_Witness ==
    /\ pc = "failed" /\ ret.b.nil /\ ret.err = ErrClosed
    /\ dbConn = "open" /\ probesOK = 0

\* C3: when the exit signal is sent before the deadline and before any ping
\* has answered nil, the poller ends in EXITED_EARLY
C3_ExitBeforeDeadlineIsExitedEarly ==
    ( /\ poller \in Terminal
      /\ exitSent.n > 0
      /\ exitSent.polling \in {"IDLE", "POLLING"}
      /\ exitSent.at < StartTimeoutTicks
      /\ probesOK = 0 )
        => poller = "EXITED_EARLY"

\* C4: the poller times out only once the deadline has passed, it ends in
\* TIMED_OUT when no ping answered nil and no exit signal was sent, and it
\* does not go on polling after a ping issued past the deadline
C4_TimedOutOnlyAfterDeadline ==
    /\ poller = "TIMED_OUT"
         => elapsed >= StartTimeoutTicks /\ ret.err = ErrTimeout /\ ret.b.nil
    /\ (poller \in Terminal /\ probesOK = 0 /\ exitSent.n = 0)
         => poller = "TIMED_OUT"
    /\ pc = "sleep" => ~latePing

C4_Witness ==
    /\ poller = "TIMED_OUT" /\ probesOK = 0 /\ exitSent.n = 0
    /\ pc = "failed" /\ ret.err = ErrTimeout

\* C5: when Start fails with "container closed", the caller finds in the
\* collector every line of the err channel that begins with "ERROR"
C5_CollectorCompleteOnExitedEarly ==
    (pc = "failed" /\ ret.err = ErrClosed /\ cfg.LoggedErrors)
        => seenErrors = ErrorLines(LinesOf(ErrBytes(logFrames)))

\* C6: the collector is a prefix of the lines of the err channel that begin
\* with "ERROR", in the order of arrival, and stays empty when none is
\* configured
C6_CollectorIsPrefixOfErrorLines ==
    /\ IsPrefix(loggedErrors,
                ErrorLines(LinesOf(ErrBytes(SubSeq(logFrames, 1, rd)))))
    /\ ~cfg.LoggedErrors => loggedErrors = <<>>

C6_Witness ==
    /\ cfg.LoggedErrors
    /\ loggedErrors = << <<"ERROR", "a">>, <<"ERROR", "b">> >>
    /\ ErrBytes(logFrames) = <<"ERROR", "a", "\n", "ERROR", "b", "\n">>

\* C7: a public operation on a nil box returns "mysqlbox is nil" (its Must*
\* wrapper panics with it), calls neither the daemon nor the database and
\* changes nothing
C7_NilBoxOperations ==
    [][ (last'.op # "none" /\ b.nil)
          => /\ last'.recv.nil
             /\ last'.ret = IF IsMust(last'.op)
                              THEN Panicked(ErrNil)
                              ELSE Returned("none", ErrNil)
             /\ last'.queries = 0 /\ last'.execs = <<>>
             /\ UNCHANGED <<tables, lifeVars, pollVars, logVars>> ]_vars

C7_Witness ==
    /\ last.op = "MustCleanTables" /\ last.recv.nil
    /\ last.args = <<"users">> /\ last.ret = Panicked(ErrNil)

\* C8: a CleanAllTables that returns nil has queried the catalog in this call
\* and has emptied every table of it that is not excluded; the excluded
\* tables keep their rows
C8_CleanAllTablesEmptiesAllButExcluded ==
    ( /\ last.op \in {"CleanAllTables", "MustCleanAllTables"}
      /\ ~last.recv.nil
      /\ last.ret = Returned("none", NoErr) )
        => /\ last.queries = 1
           /\ Range(last.rows) = { t \in TableNames : Existed(t) }
           /\ \A t \in TableNames :
                tables[t] = IF Existed(t) /\ t \notin last.recv.doNotCleanTables
                              THEN 0
                              ELSE last.pre[t]

C8_Witness ==
    /\ last.op = "CleanAllTables" /\ ~last.recv.nil
    /\ last.ret = Returned("none", NoErr)
    /\ last.recv.doNotCleanTables = {"categories"}
    /\ last.pre = [t \in TableNames |-> 1]
    /\ tables = [t \in TableNames |-> IF t = "categories" THEN 1 ELSE 0]

\* C9: when a TRUNCATE of CleanAllTables fails, CleanAllTables returns the
\* failure as its error and has truncated no table after the failing one
C9_CleanAllTablesReturnsFirstFailure ==
    ( /\ last.op = "CleanAllTables"
      /\ ~last.recv.nil
      /\ last.up
      /\ \E i \in DOMAIN last.rows :
           last.rows[i] \notin last.recv.doNotCleanTables /\ last.rows[i] \in last.fail )
        => /\ last.ret.kind = "return"
           /\ last.ret.err # NoErr
           /\ last.execs # <<>>
           /\ last.execs[Len(last.execs)] \in last.fail

\* C10, as the specification states it: CleanTables empties every named table that exists and
\* leaves every other table as it was
C10_CleanTablesEmptiesEveryNamedTable ==
    (last.op \in {"CleanTables", "MustCleanTables"} /\ ~last.recv.nil)
        => \A t \in TableNames :
             tables[t] = IF t \in Range(last.args) /\ Existed(t)
                           THEN 0
                           ELSE last.pre[t]

\* C10, amended: CleanTables empties every named table whose TRUNCATE
\* succeeds, excluded or not, and leaves every other table as it was
C10_CleanTablesEmptiesTruncatedTables ==
    (last.op \in {"CleanTables", "MustCleanTables"} /\ ~last.recv.nil)
        => /\ last.execs = last.args
           /\ \A t \in TableNames :
                tables[t] = IF /\ t \in Range(last.args)
                               /\ Existed(t)
                               /\ last.up
                               /\ t \notin last.fail
                              THEN 0
                              ELSE last.pre[t]

C10_Witness ==
    /\ last.op = "CleanTables" /\ ~last.recv.nil
    /\ last.args = <<"categories", "non_existent">>
    /\ last.recv.doNotCleanTables = {"categories"}
    /\ last.pre = [t \in TableNames |-> 1]
    /\ tables = [t \in TableNames |-> IF t = "categories" THEN 0 ELSE 1]

\* the TRUNCATE of table t failed in the last operation
TruncateFailed(t) == ~last.up \/ ~(t \in TableNames) \/ ~Existed(t) \/ t \in last.fail

\* C11: CleanTables on a live box returns nil whatever the TRUNCATEs answer,
\* and a name whose TRUNCATE fails does not keep the names after it from
\* being truncated
C11_CleanTablesIsBestEffort ==
    (last.op \in {"CleanTables", "MustCleanTables"} /\ ~last.recv.nil)
        => /\ last.ret = Returned("none", NoErr)
           /\ Len(last.execs) = Len(last.args)
           /\ \A i, j \in DOMAIN last.args :
                (i < j /\ TruncateFailed(last.args[i]) /\ ~TruncateFailed(last.args[j]))
                    => /\ last.execs[j] = last.args[j]
                       /\ tables[last.args[j]] = 0

C11_Witness ==
    /\ last.op = "CleanTables" /\ ~last.recv.nil
    /\ last.args = <<"non_existent", "categories">>
    /\ last.pre = [t \in TableNames |-> 1]
    /\ last.ret = Returned("none", NoErr)
    /\ tables["categories"] = 0 /\ tables["users"] = 1

\* the number of calls of an operation of the docker client made so far
Count(call) == Cardinality({ i \in DOMAIN rtCalls : rtCalls[i] = call })

\* this step makes the call
Calls(call) ==
    /\ Len(rtCalls') = Len(rtCalls) + 1
    /\ rtCalls'[Len(rtCalls')] = call

\* C12: the image is pulled only after a first ContainerCreate that answered
\* not-found, and once; the container is created at most twice, the second
\* time only right after the pull; any other failure of a creation ends Start
C12_PullOnceCreateTwice ==
    [][ /\ Calls("ImagePull")
            => /\ createErr = ErrNotFound
               /\ Count("ContainerCreate") = 1
               /\ Count("ImagePull") = 0
        /\ Calls("ContainerCreate")
            => \/ rtCalls = <<>>
               \/ rtCalls = <<"ContainerCreate", "ImagePull">>
        /\ ( /\ Calls("ContainerCreate")
             /\ createErr' # NoErr
             /\ ~(rtCalls = <<>> /\ createErr' = ErrNotFound) )
            => pc' = "failed"
        /\ pc = "failed" => rtCalls' = rtCalls ]_vars

C12_Witness ==
    /\ pc = "failed"
    /\ rtCalls = <<"ContainerCreate", "ImagePull", "ContainerCreate">>
    /\ createErr = ErrNotFound

\* C13: when a ContainerCreate fails for good, the error Start returns is the
\* answer of that ContainerCreate wrapped with "error creating container"
C13_CreateFailureCarriesCause ==
    ( /\ pc = "failed"
      /\ rtCalls # <<>>
      /\ rtCalls[Len(rtCalls)] = "ContainerCreate" )
        => /\ createErr # NoErr
           /\ ret.err = Wrap("error creating container", createErr)

\* a ContainerCreate of this Start has answered with a container
ContainerCreated == Count("ContainerCreate") > 0 /\ createErr = NoErr

\* C14: when Start has failed after the container was created, no container
\* is left created or running
C14_FailedStartLeavesNoContainer ==
    (pc = "failed" /\ ContainerCreated)
        => container \in {"exited", "removed"}

\* C15: when an initial script was supplied and Start has failed, the
\* temporary schema file is not left on the filesystem
C15_FailedStartRemovesSchemaFile ==
    (pc = "failed" /\ cfg.InitialSQL) => schemaFile \in {"none", "removed"}

\* C16: whatever the calls of Start and Stop, the removal of the schema file
\* is carried out at most once
C16_SchemaFileRemovedAtMostOnce == removes <= 1

\* C17: the connection opened by connectDB is closed once Stop has returned
\* nil, and once Start has failed in waitForDB
C17_ConnectionReleased ==
    ( \/ pc = "failed" /\ poller \in {"TIMED_OUT", "EXITED_EARLY"}
      \/ pc = "started" /\ stops > 0 /\ stopRet = NoErr )
        => dbConn # "open"

\* the last call made to the docker client
LastCall == IF rtCalls = <<>> THEN "none" ELSE rtCalls[Len(rtCalls)]

\* C18: Stop returns the error of a failed ContainerStop without calling
\* ContainerWait; after ContainerWait it returns nil for a removed
\* notification or a not-found error, and any other error as it is
C18_StopErrorPolicy ==
    /\ pc = "stop_wait" => LastCall = "ContainerStop" /\ stopAns = NoErr
    /\ (pc = "started" /\ stops > 0)
         => \/ /\ LastCall = "ContainerStop"
               /\ stopAns # NoErr
               /\ stopRet = stopAns
            \/ /\ LastCall = "ContainerWait"
               /\ stopRet = IF stopAns \in {Err("removed"), ErrNotFound}
                              THEN NoErr
                              ELSE stopAns

C18_Witness ==
    /\ pc = "started" /\ stops > 0
    /\ LastCall = "ContainerWait"
    /\ stopAns = ErrNotFound /\ stopRet = NoErr

\* C19: the mux sends on containerExit at most once, and only when StdCopy
\* has returned nil at the end of the stream, never when it returned an
\* error; waitForDB receives from the channel at most once
C19_ExitSignalOnceOnEOFOnly ==
    /\ exitSent.n <= 1
    /\ exitRecv <= exitSent.n
    /\ Len(containerClosed) = exitSent.n - exitRecv
    /\ exitSent.n > 0
         => muxPc = "done" /\ muxErr = NoErr /\ rd = Len(logFrames)
    /\ muxErr # NoErr => exitSent.n = 0 /\ containerClosed = <<>>

C19_Witness ==
    /\ exitSent.n = 1 /\ exitRecv = 1
    /\ poller = "EXITED_EARLY" /\ muxErr = NoErr
    /\ containerClosed = <<>>

\* C20: the mux never has to wait to send on containerClosed, and a send
\* made after waitForDB has ended completes the mux and changes neither what
\* Start returns nor the MySQLBox; what Start has returned stays as it is
C20_LateExitSignalHasNoEffect ==
    /\ [](muxPc \in {"logs", "copy", "pipe write"} => ~ChanFull(containerClosed))
    /\ [][ /\ (poller \in Terminal /\ exitSent'.n = exitSent.n + 1)
               => /\ muxPc' = "done"
                  /\ UNCHANGED <<pc, b, ret, poller, exitRecv, dbConn, stopRet>>
           /\ StartReturned => ret' = ret /\ poller' = poller ]_vars

C20_Witness ==
    /\ pc = "started" /\ ~ret.b.nil /\ ret.err = NoErr
    /\ poller = "READY"
    /\ exitSent.n = 1 /\ exitSent.polling = "READY"
    /\ muxPc = "done" /\ containerClosed = <<TRUE>>

\* C21: the mux never waits for the scanner: whenever it is inside the Write
\* to the pipe, that Write can return without a step of the scanner
C21_MuxNeverWaitsForScanner ==
    muxPc = "pipe write" => ENABLED Mux_PipeWritten

\* C22: after a read on a closed response body the mux has ended with the
\* pipe closed as at the end of the stream, it has not sent on
\* containerClosed, and neither Start nor Stop returns that error
C22_ClosedBodyIsCleanShutdown ==
    /\ muxErr = ErrClosedBody
         => /\ muxPc = "done"
            /\ pipe.state = "closed"
            /\ exitSent.n = 0 /\ exitRecv = 0
    /\ ret.err # ErrClosedBody /\ stopRet # ErrClosedBody

C22_Witness ==
    /\ muxErr = ErrClosedBody /\ muxPc = "done"
    /\ pipe.state = "closed"
    /\ pc = "started" /\ ret.err = NoErr

\* C23: when the mux has ended with an error of the log stream other than a
\* read on a closed body, the caller has that error from Start or from Stop
C23_LogStreamErrorIsSurfaced ==
    (StartReturned /\ muxPc = "done" /\ muxErr \notin {NoErr, ErrClosedBody})
        => ret.err = muxErr \/ stopRet = muxErr

\* the calls Start has made, those of Stop left out
StartCalls ==
    SelectSeq(rtCalls, LAMBDA c : c \notin {"ContainerStop", "ContainerWait"})

\* C24: Start makes its calls in one order, each step once; the mux is
\* spawned only after ContainerStart has succeeded, the connection is opened
\* only after the port was resolved, the polling begins only after the
\* connection was opened, and nothing follows a step that failed
C24_StartupStepsAreOrdered ==
    /\ \/ IsPrefix(StartCalls, <<"ContainerCreate", "ContainerStart",
                                 "ContainerInspect", "sql.Open">>)
       \/ IsPrefix(StartCalls, <<"ContainerCreate", "ImagePull", "ContainerCreate",
                                 "ContainerStart", "ContainerInspect", "sql.Open">>)
    /\ muxPc # "none"
         => /\ Count("ContainerStart") = 1
            /\ ContainerCreated
            /\ container \notin {"absent", "created"}
    /\ dbConn = "open" => Count("ContainerInspect") = 1 /\ muxPc # "none"
    /\ poller # "IDLE" => dbConn = "open" /\ Count("sql.Open") = 1
    /\ (pc = "failed" /\ LastCall = "ContainerStart")
         => muxPc = "none" /\ dbConn # "open" /\ poller = "IDLE"
    /\ (pc = "failed" /\ LastCall = "ContainerInspect")
         => dbConn # "open" /\ poller = "IDLE"

C24_Witness ==
    /\ pc = "failed" /\ LastCall = "ContainerStart"
    /\ Count("ContainerStart") = 1
    /\ muxPc = "none" /\ poller = "IDLE"

\* the bytes of the out channel in a sequence of frames
RECURSIVE OutBytes(_)
OutBytes(frames) ==
    IF frames = <<>> THEN <<>>
    ELSE (IF Head(frames).ch = "out" THEN Head(frames).data ELSE <<>>)
         \o OutBytes(Tail(frames))

\* the frames StdCopy has read
FramesRead == SubSeq(logFrames, 1, rd)

\* C25: a sink the caller supplied holds the bytes of the frames of its own
\* channel read so far, in their order, and nothing of the other channel;
\* nothing is written for a sink that was not supplied, and the mux reads the
\* stream all the same
C25_FramesReachTheirOwnSink ==
    /\ outSink = IF cfg.Stdout THEN OutBytes(FramesRead) ELSE <<>>
    /\ errSink = IF cfg.Stderr THEN ErrBytes(FramesRead) ELSE <<>>
    /\ muxPc = "done" /\ muxErr = NoErr => rd = Len(logFrames) /\ exitSent.n = 1

C25_Witness ==
    /\ cfg.Stdout /\ cfg.Stderr
    /\ muxPc = "done" /\ rd = 2
    /\ logFrames[1].ch = "err" /\ logFrames[2].ch = "out"
    /\ outSink = logFrames[2].data /\ errSink = logFrames[1].data

\* C26: when ContainerInspect answers without a host binding for 3306/tcp,
\* Start fails with "no port bindings"; after that failure no connection was
\* opened and no ping was made
C26_NoPortBindingsFailsStart ==
    /\ [][ (Calls("ContainerInspect") /\ container = "exited")
             => /\ pc' = "failed" /\ ret'.b.nil
                /\ ret'.err \in {ErrNoPorts} \cup Faulty({ErrTransport}) ]_vars
    /\ []( (pc = "failed" /\ ret.err = ErrNoPorts)
             => /\ LastCall = "ContainerInspect"
                /\ dbConn = "none" /\ Count("sql.Open") = 0
                /\ poller = "IDLE" /\ probesOK = 0 /\ elapsed = 0 )

C26_Witness ==
    /\ pc = "failed" /\ ret.b.nil /\ ret.err = ErrNoPorts
    /\ LastCall = "ContainerInspect" /\ container = "exited"
    /\ dbConn = "none" /\ poller = "IDLE"

\* the values of the variable called name in the container's environment
EnvValues(name) ==
    { containerEnv[i].value : i \in { j \in DOMAIN containerEnv :
                                        containerEnv[j].name = name } }

\* the number of entries of the container's environment with a name of names
EnvCount(names) ==
    Cardinality({ i \in DOMAIN containerEnv : containerEnv[i].name \in names })

\* C27: a created container has MYSQL_DATABASE with the configured name and
\* exactly one of MYSQL_ALLOW_EMPTY_PASSWORD and MYSQL_ROOT_PASSWORD: the
\* flag exactly when the root password is empty, else the password itself
C27_ContainerEnvironment ==
    ContainerCreated
        => /\ EnvCount({"MYSQL_DATABASE"}) = 1
           /\ EnvValues("MYSQL_DATABASE") = {cfg.Database}
           /\ EnvCount({"MYSQL_ALLOW_EMPTY_PASSWORD", "MYSQL_ROOT_PASSWORD"}) = 1
           /\ EnvCount({"MYSQL_ALLOW_EMPTY_PASSWORD"}) = 1 <=> cfg.RootPassword = ""
           /\ EnvValues("MYSQL_ROOT_PASSWORD") \subseteq {cfg.RootPassword}

C27_Witness ==
    /\ ContainerCreated /\ cfg.RootPassword = "secret"
    /\ EnvValues("MYSQL_ROOT_PASSWORD") = {"secret"}
    /\ EnvCount({"MYSQL_ALLOW_EMPTY_PASSWORD"}) = 0

\* C28: ConnectDB on a running box calls nothing of the docker client and
\* changes neither the box nor the database; the descriptor it returns has
\* the name asked and is otherwise the descriptor of the box: loopback host,
\* resolved port, root user and the configured password
C28_ConnectDBOnlyChangesTheName ==
    last.op = "ConnectDB"
        => /\ ~b.nil /\ last.recv = b
           /\ b = NewBox(cfg, HostPort) /\ tables = last.pre
           /\ StartCalls = rtCalls /\ Count("sql.Open") = 1
           /\ last.queries = 0 /\ last.execs = <<>>
           /\ last.ret.kind = "return" /\ last.ret.err = NoErr
           /\ LET d == last.ret.val.dsn IN
                /\ d.db = last.args[1]
                /\ d.host = "127.0.0.1" /\ d.port = b.port /\ d.user = "root"
                /\ d.passwd = cfg.RootPassword
                /\ [d EXCEPT !.db = b.dsn.db] = b.dsn

C28_Witness ==
    /\ last.op = "ConnectDB" /\ ~last.recv.nil
    /\ last.args = <<"db_two">>
    /\ last.ret.val.dsn.db = "db_two"
    /\ last.ret.val.dsn.passwd = "secret"
    /\ b.dsn.db = "testing"

\* C29: a poller that polls ends in READY, TIMED_OUT or EXITED_EARLY, and a
\* poller that has ended stays in the state it ended in
C29_PollerTerminates ==
    /\ (poller = "POLLING") ~> (poller \in Terminal)
    /\ [][(poller \in Terminal) => (poller' = poller)]_vars
    /\ [](poller \in {"IDLE", "POLLING"} \cup Terminal)

C29_Witness ==
    /\ poller = "READY" /\ pc = "started"
    /\ probesOK = 1 /\ elapsed = StartTimeoutTicks - 1
    /\ stops = 0

\* C30: with a daemon that answers every request, a Stop that found the
\* container already removed returns nil
C30_StopOnGoneContainerSucceeds ==
    (pc = "started" /\ stops > 0 /\ ~faults /\ container = "removed")
        => stopRet = NoErr

\* C31: every return of Stop on a started box leaves the schema file closed
\* and removed, whether ContainerStop failed, ContainerWait answered with an
\* error or Stop returned nil; and a Stop that waits for the removal returns
C31_StopReleasesSchemaFileAndReturns ==
    /\ []((pc = "started" /\ stops > 0 /\ b.hasSchemaFile)
             => schemaFile = "removed")
    /\ [][(pc = "started" /\ pc' = "stop_wait") => (schemaFile' = schemaFile)]_vars
    /\ (pc = "stop_wait") ~> (pc = "started" /\ stops > 0)

C31_Witness ==
    /\ pc = "started" /\ stops = 1
    /\ b.hasSchemaFile /\ schemaFile = "removed" /\ removes = 1
    /\ stopAns = ErrTransport /\ stopRet = ErrTransport
    /\ rtCalls[Len(rtCalls)] = "ContainerWait"

\* C32: in the Start that uses clogClose, the signal that Stop sends is
\* received by the goroutine ranging over clogClose, which closes the log
\* reader and ends; and every goroutine that stopContainer spawned to send
\* the signal ends
C32_StopSignalClosesLogReader ==
    /\ (stops > 0 /\ closer = "range") ~> (closer = "done" /\ clog = "closed")
    /\ [](stops > 0 => <>(senders.done = stops))

====
